---- MODULE Spec2Model ----
(***************************************************************************)
(* A model of the books.toscrape.com scraper (Phase2.py / Phase3.py).      *)
(*                                                                         *)
(* The web site is the environment: every fetch draws its response from a  *)
(* bounded set of responses (a request failure, or a page whose markup is  *)
(* recorded by the elements the code looks up).  Alongside the program's   *)
(* variables the model keeps a log of what each fetch returned, so that    *)
(* the results can be compared with the pages that were served.            *)
(***************************************************************************)
EXTENDS Integers, Sequences, FiniteSets, TLC

VARIABLES
    \* ---- get_all_book_links_in_category (Phase3.py 227-281)
    pcL,               \* "idle" | "loop" (inside while True) | "done" (returned)
    category_base_url, \* the argument
    current_page_url,  \* local
    all_book_links,    \* local, the returned list
    page_num,          \* local
    \* ---- log of the listing fetches of the current call (not program state)
    fetchLog,          \* one entry per requests.get of a listing page
    \* ---- the listing pages of a site whose pages do not change (not program state)
    site,              \* URL -> response; empty when every fetch draws its response
    \* ---- scrape_book_details_simple (Phase3.py 8-132)
    pcD,               \* "idle", the statement about to run, or "done" (returned)
    book_url,          \* the argument url
    book_data,         \* local, the dictionary under construction
    scrape_ret,        \* "pending" | "None" | "dict" (book_data is returned)
    \* ---- log of what the detail page held (not program state)
    detailLog,
    \* ---- the file system the export functions write to
    files,             \* file name -> rows of the file, for the files that exist
    \* ---- log of the export calls (not program state)
    files0,            \* the file system before the first call
    exportLog,         \* one entry per export call: file name and batch
    \* ---- get_all_categories_with_links (Phase3.py 187-225)
    categories_ret,    \* "pending" | "list" (categories is returned) | "raised"
    categories,        \* local, the returned list
    \* ---- log of the root page served (not program state)
    rootLog,
    \* ---- the __main__ block of Phase3.py (283-328)
    pcM,               \* "start" | "links" | "scrape" | "export" | "end" | "raised"
    categories_with_links,
    category_i,        \* i + 1 of the outer for loop
    book_urls_in_category,
    book_j,            \* j + 1 of the inner for loop
    books_in_current_category,
    total_books_scraped,
    \* ---- log of the crawl (not program state)
    mainLog,           \* per category entered: its links and what each extraction returned
    crawlTrace         \* the fetches and exports of the crawl, in the order they were made

linkVars == <<pcL, category_base_url, current_page_url, all_book_links, page_num, fetchLog, site>>

detailVars == <<pcD, book_url, book_data, scrape_ret, detailLog>>

exportVars == <<files, files0, exportLog>>

categoryVars == <<categories_ret, categories, rootLog>>

mainVars == <<pcM, categories_with_links, category_i, book_urls_in_category, book_j,
              books_in_current_category, total_books_scraped, mainLog, crawlTrace>>

vars == <<linkVars, detailVars, exportVars, categoryVars, mainVars>>

\* what an action of one function leaves alone of the other functions
notLinkVars == <<detailVars, exportVars, categoryVars>>

notDetailVars == <<linkVars, exportVars, categoryVars>>

notExportVars == <<linkVars, detailVars, categoryVars>>

notCategoryVars == <<linkVars, detailVars, exportVars>>

-----------------------------------------------------------------------------
\* Bounds of the model.

\* the pagination loop has no bound in the code; the model stops following
\* 'next' after this many listing pages
MaxPages == 3
\* product entries (article.product_pod) on one listing page
MaxArticles == 2
\* rows of the product-attribute table of a detail page
MaxRows == 3
\* <li> entries of the breadcrumb of a detail page
MaxCrumbs == 3
\* class tokens of a <p> element besides the star-rating marker
MaxClasses == 2
\* records in one exported batch
MaxBatch == 2
\* export calls in one run of the export functions on their own
MaxCalls == 2
\* characters of a category name handed to export_books_to_csv on its own
MaxNameLen == 3
\* links of one nested list of the sidebar
MaxCategoryLinks == 2

-----------------------------------------------------------------------------
\* URLs.  A URL is the sequence of its path segments (all URLs of the model
\* are on one host); a relative reference is a sequence of segments in which
\* ".." climbs one directory.

\* urllib.parse.urljoin(base, rel) for a relative path: the last segment of
\* base (the document) is dropped, then each segment of rel is applied;
\* a ".." above the root is dropped.
RECURSIVE ApplySegments(_, _)
ApplySegments(dir, rel) ==
    IF rel = <<>> THEN dir
    ELSE IF Head(rel) = ".."
         THEN ApplySegments(IF dir = <<>> THEN <<>> ELSE SubSeq(dir, 1, Len(dir) - 1), Tail(rel))
         ELSE ApplySegments(Append(dir, Head(rel)), Tail(rel))

urljoin(base, rel) ==
    IF rel = <<>> THEN base
    ELSE ApplySegments(IF base = <<>> THEN <<>> ELSE SubSeq(base, 1, Len(base) - 1), rel)

\* the category root handed to get_all_book_links_in_category when the
\* function is run on its own
CategoryUrls == { <<"cat", "travel", "index.html">> }

\* href values of the product links of a listing page
BookHrefs == { <<"..", "..", "b1", "index.html">>, <<"..", "b2", "index.html">> }

\* href values of the 'next' link of a listing page (the next page lies in
\* another directory than the page that links it)
NextHrefs == { <<"more", "page-2.html">> }

-----------------------------------------------------------------------------
\* Listing pages, by the elements get_all_book_links_in_category looks up.

\* an <article class="product_pod">: does it hold an <h3>, does the <h3>
\* hold an <a>, does the <a> carry an href
ArticleNoH3 == [h3 |-> FALSE, a |-> FALSE, hasHref |-> FALSE, href |-> <<>>]
ArticleNoA == [h3 |-> TRUE, a |-> FALSE, hasHref |-> FALSE, href |-> <<>>]
ArticleNoHref == [h3 |-> TRUE, a |-> TRUE, hasHref |-> FALSE, href |-> <<>>]
ArticleLink(h) == [h3 |-> TRUE, a |-> TRUE, hasHref |-> TRUE, href |-> h]

Articles == {ArticleNoH3, ArticleNoA, ArticleNoHref} \cup {ArticleLink(h) : h \in BookHrefs}

\* up to MaxArticles entries, at most one of them without a product link
ArticleLists ==
    {l \in UNION {[1..n -> Articles] : n \in 0..MaxArticles} :
        Cardinality({i \in 1..Len(l) : ~(l[i].h3 /\ l[i].a /\ l[i].hasHref)}) <= 1}

\* the <li class="next">: present or not, with or without <a>, with or without href
NextNone == [li |-> FALSE, a |-> FALSE, hasHref |-> FALSE, href |-> <<>>]
NextNoA == [li |-> TRUE, a |-> FALSE, hasHref |-> FALSE, href |-> <<>>]
NextNoHref == [li |-> TRUE, a |-> TRUE, hasHref |-> FALSE, href |-> <<>>]
NextLink(h) == [li |-> TRUE, a |-> TRUE, hasHref |-> TRUE, href |-> h]

NextButtons == {NextNone, NextNoA, NextNoHref} \cup {NextLink(h) : h \in NextHrefs}

\* a listing page: is there a <section>, the product_pod articles inside it
\* (none can be found without a section), the 'next' indicator
ListingPages ==
    [section : {TRUE}, articles : ArticleLists, next : NextButtons]
    \cup [section : {FALSE}, articles : {<<>>}, next : NextButtons]

\* what requests.get + raise_for_status yields: a page, or a RequestException
\* (ConnectionError/Timeout, or HTTPError for a non-success status)
NoListingPage == [section |-> FALSE, articles |-> <<>>, next |-> NextNone]

ListingResponses ==
    [ok : {TRUE}, error : {"none"}, page : ListingPages]
    \cup [ok : {FALSE}, error : {"ConnectionError", "HTTPError"}, page : {NoListingPage}]

\* Exception classes: requests' ConnectionError and HTTPError derive from
\* RequestException; every exception of the model derives from Exception.
IsRequestException(exc) == exc \in {"ConnectionError", "HTTPError"}

IsException(exc) == exc \in {"ConnectionError", "HTTPError", "AttributeError", "TypeError", "KeyError"}

\* What the log keeps of a served listing page: whether the fetch succeeded,
\* the hrefs of its product links in document order (the entries that hold
\* h3 > a[href]), whether some entry or the 'next' indicator is malformed
\* (an article without <h3>, a li.next without <a> or without href), and
\* the 'next' indicator.
HasProductLink(article) == article.h3 /\ article.a /\ article.hasHref

ProductHrefs(page) ==
    LET linked == SelectSeq(page.articles, HasProductLink)
    IN  [i \in 1..Len(linked) |-> linked[i].href]

MalformedArticleAt(page) ==
    IF \E i \in 1..Len(page.articles) : ~page.articles[i].h3
    THEN CHOOSE i \in 1..Len(page.articles) :
            /\ ~page.articles[i].h3
            /\ \A j \in 1..(i - 1) : page.articles[j].h3
    ELSE 0

MalformedNext(page) == page.next.li /\ ~(page.next.a /\ page.next.hasHref)

Observe(url, resp) ==
    [url |-> url,
     ok |-> resp.ok,
     hrefs |-> IF resp.ok THEN ProductHrefs(resp.page) ELSE <<>>,
     hrefsBeforeBad |-> IF resp.ok /\ MalformedArticleAt(resp.page) > 0
                        THEN ProductHrefs([resp.page EXCEPT !.articles =
                                 SubSeq(resp.page.articles, 1, MalformedArticleAt(resp.page) - 1)])
                        ELSE <<>>,
     badArticle |-> resp.ok /\ MalformedArticleAt(resp.page) > 0,
     badNext |-> resp.ok /\ MalformedNext(resp.page),
     next |-> IF resp.ok THEN resp.page.next ELSE NextNone]

-----------------------------------------------------------------------------
\* get_all_book_links_in_category

\* lines 254-261: the for loop over book_containers, appending to the list
\* acc.  container.find('h3') is None for an article without <h3>, and
\* None.find raises AttributeError: the loop is left with what was appended.
M_ScanContainers_Prepend(containers, url, acc) ==
    LET linked == SelectSeq(containers, HasProductLink)
    IN  [links |-> [i \in 1..Len(linked) |-> urljoin(url, linked[Len(linked) + 1 - i].href)] \o acc,
         exc |-> IF \E i \in 1..Len(containers) : ~containers[i].h3
                 THEN "AttributeError" ELSE "none"]

RECURSIVE ScanContainers(_, _, _)
ScanContainers(containers, url, acc) ==
    IF containers = <<>> THEN [links |-> acc, exc |-> "none"]
    ELSE LET container == Head(containers) IN
         IF ~container.h3 THEN [links |-> acc, exc |-> "AttributeError"]
         ELSE IF container.a /\ container.hasHref
              THEN ScanContainers(Tail(containers), url, Append(acc, urljoin(url, container.href)))
              ELSE ScanContainers(Tail(containers), url, acc)

\* lines 245-272: the try body of one pass of the loop, on the response
\* resp.  The result tells the exception raised ("none" if none), the
\* values of the locals when the body is left, and whether it left by break.
M_LinksTryBody_DropPartialPage(resp, url, links, pn) ==
    IF ~resp.ok
    THEN [exc |-> resp.error, links |-> links, url |-> url, page_num |-> pn, brk |-> FALSE]
    ELSE LET soup == resp.page
             scan == IF soup.section
                     THEN ScanContainers(soup.articles, url, links)
                     ELSE [links |-> links, exc |-> "none"]
         IN  IF scan.exc # "none"
             THEN [exc |-> scan.exc, links |-> links, url |-> url, page_num |-> pn, brk |-> FALSE]
             ELSE IF soup.next.li
                  THEN IF ~soup.next.a
                       THEN [exc |-> "TypeError", links |-> links, url |-> url, page_num |-> pn, brk |-> FALSE]
                       ELSE IF ~soup.next.hasHref
                       THEN [exc |-> "KeyError", links |-> links, url |-> url, page_num |-> pn, brk |-> FALSE]
                       ELSE [exc |-> "none", links |-> scan.links,
                             url |-> urljoin(url, soup.next.href), page_num |-> pn + 1, brk |-> FALSE]
                  ELSE [exc |-> "none", links |-> scan.links, url |-> url, page_num |-> pn, brk |-> TRUE]

LinksTryBody(resp, url, links, pn) ==
    IF ~resp.ok
    THEN [exc |-> resp.error, links |-> links, url |-> url, page_num |-> pn, brk |-> FALSE]
    ELSE LET soup == resp.page
             scan == IF soup.section
                     THEN ScanContainers(soup.articles, url, links)
                     ELSE [links |-> links, exc |-> "none"]
         IN  IF scan.exc # "none"
             THEN [exc |-> scan.exc, links |-> scan.links, url |-> url, page_num |-> pn, brk |-> FALSE]
             ELSE IF soup.next.li
                  THEN IF ~soup.next.a
                       THEN \* None['href']
                            [exc |-> "TypeError", links |-> scan.links, url |-> url, page_num |-> pn, brk |-> FALSE]
                       ELSE IF ~soup.next.hasHref
                       THEN [exc |-> "KeyError", links |-> scan.links, url |-> url, page_num |-> pn, brk |-> FALSE]
                       ELSE [exc |-> "none", links |-> scan.links,
                             url |-> urljoin(url, soup.next.href), page_num |-> pn + 1, brk |-> FALSE]
                  ELSE [exc |-> "none", links |-> scan.links, url |-> url, page_num |-> pn, brk |-> TRUE]

\* lines 274-279: the except clauses of the loop; both break
M_LinksCaught_OnlyRequest(exc) == IsRequestException(exc)

M_LinksCaught_OnlyParse(exc) == IsException(exc) /\ ~IsRequestException(exc)

LinksCaught(exc) == IsRequestException(exc) \/ IsException(exc)

\* lines 238-240: the call
LinksCall(url) ==
    /\ pcL = "idle"
    /\ pcL' = "loop"
    /\ category_base_url' = url
    /\ current_page_url' = url
    /\ all_book_links' = <<>>
    /\ page_num' = 1
    /\ fetchLog' = <<>>
    /\ UNCHANGED <<site, notLinkVars>>

\* lines 242-281: one pass of the while loop on the response resp; a break
\* falls through to the return of line 281
M_LinksIteration_AgainstRoot(resp) ==
    /\ pcL = "loop"
    /\ page_num <= MaxPages
    /\ fetchLog' = Append(fetchLog, Observe(current_page_url, resp))
    /\ UNCHANGED <<category_base_url, site, notLinkVars>>
    /\ LET r == LinksTryBody(resp, category_base_url, all_book_links, page_num)
       IN  /\ all_book_links' = r.links
           /\ current_page_url' = r.url
           /\ page_num' = r.page_num
           /\ pcL' = IF r.exc # "none"
                     THEN (IF LinksCaught(r.exc) THEN "done" ELSE "raised")
                     ELSE (IF r.brk THEN "done" ELSE "loop")

LinksIteration(resp) ==
    /\ pcL = "loop"
    /\ page_num <= MaxPages
    /\ fetchLog' = Append(fetchLog, Observe(current_page_url, resp))
    /\ UNCHANGED <<category_base_url, site, notLinkVars>>
    /\ LET r == LinksTryBody(resp, current_page_url, all_book_links, page_num)
       IN  /\ all_book_links' = r.links
           /\ current_page_url' = r.url
           /\ page_num' = r.page_num
           /\ pcL' = IF r.exc # "none"
                     THEN (IF LinksCaught(r.exc) THEN "done" ELSE "raised")
                     ELSE (IF r.brk THEN "done" ELSE "loop")

\* no fixed site: every fetch draws its response
NoSite == [u \in {} |-> NoListingPage]

InitLinksOn(sites) ==
    /\ pcL = "idle"
    /\ category_base_url = <<>>
    /\ current_page_url = <<>>
    /\ all_book_links = <<>>
    /\ page_num = 1
    /\ fetchLog = <<>>
    /\ site \in sites

InitLinks == InitLinksOn({NoSite})

NextLinks ==
    \/ \E url \in CategoryUrls : LinksCall(url) /\ UNCHANGED mainVars
    \/ \E resp \in ListingResponses : LinksIteration(resp) /\ UNCHANGED mainVars

\* get_all_book_links_in_category on a site whose pages do not change from
\* one fetch to the next: three listing pages in one directory, each one
\* failing to load or holding an entry (with or without heading) and a
\* 'next' indicator (none, one without link, or a link to any of the three)
SiteRoot == <<"cat", "travel", "index.html">>

SiteUrls == { SiteRoot, <<"cat", "travel", "page-2.html">>, <<"cat", "travel", "page-3.html">> }

SiteNextHrefs == { <<"index.html">>, <<"page-2.html">>, <<"page-3.html">> }

SiteResponses ==
    [ok : {TRUE}, error : {"none"},
     page : [section : {TRUE},
             articles : {<<ArticleLink(<<"..", "b2", "index.html">>)>>, <<ArticleNoH3>>},
             next : {NextNone, NextNoA} \cup {NextLink(h) : h \in SiteNextHrefs}]]
    \cup {[ok |-> FALSE, error |-> "HTTPError", page |-> NoListingPage]}

Sites == [SiteUrls -> SiteResponses]

SiteIteration == LinksIteration(site[current_page_url]) /\ UNCHANGED mainVars

NextSite ==
    \/ LinksCall(SiteRoot) /\ UNCHANGED mainVars
    \/ SiteIteration


-----------------------------------------------------------------------------
\* Text.  Where the code takes a text apart (the availability text, the image
\* path, the page URL) a string is the sequence of its tokens: a token is a
\* character or a run of characters none of the patterns can split.  Other
\* texts (title, prices, description) are only copied and are plain strings;
\* for them the text of an element stands for get_text(strip=True).

Whitespace == {" ", "\n"}

Digits == {"0", "1", "2", "3", "4", "5", "6", "7", "8", "9"}

\* str.strip() as get_text(strip=True) applies it to a text node
RECURSIVE LStrip(_)
LStrip(s) == IF s # <<>> /\ Head(s) \in Whitespace THEN LStrip(Tail(s)) ELSE s

RECURSIVE RStrip(_)
RStrip(s) ==
    IF s # <<>> /\ s[Len(s)] \in Whitespace THEN RStrip(SubSeq(s, 1, Len(s) - 1)) ELSE s

Strip(s) == RStrip(LStrip(s))

\* does pat occur in s at position i
OccursAt(s, pat, i) ==
    /\ i >= 1
    /\ i + Len(pat) - 1 <= Len(s)
    /\ \A k \in 1..Len(pat) : s[i + k - 1] = pat[k]

\* s.split(pat)[0]: the part of s before the first occurrence of pat, all
\* of s when pat does not occur
RECURSIVE SplitFirstFrom(_, _, _)
SplitFirstFrom(s, pat, i) ==
    IF i > Len(s) THEN s
    ELSE IF OccursAt(s, pat, i) THEN SubSeq(s, 1, i - 1)
    ELSE SplitFirstFrom(s, pat, i + 1)

SplitFirst(s, pat) == SplitFirstFrom(s, pat, 1)

\* s.replace(pat, ''): every occurrence of pat removed, scanning from the left
RECURSIVE RemoveAll(_, _)
RemoveAll(s, pat) ==
    IF s = <<>> THEN <<>>
    ELSE IF OccursAt(s, pat, 1) THEN RemoveAll(SubSeq(s, Len(pat) + 1, Len(s)), pat)
    ELSE <<Head(s)>> \o RemoveAll(Tail(s), pat)

\* int(digits)
DigitValue(d) ==
    CASE d = "0" -> 0 [] d = "1" -> 1 [] d = "2" -> 2 [] d = "3" -> 3 [] d = "4" -> 4
      [] d = "5" -> 5 [] d = "6" -> 6 [] d = "7" -> 7 [] d = "8" -> 8 [] d = "9" -> 9

RECURSIVE IntOfFrom(_, _)
IntOfFrom(ds, acc) ==
    IF ds = <<>> THEN acc ELSE IntOfFrom(Tail(ds), acc * 10 + DigitValue(Head(ds)))

IntOf(ds) == IntOfFrom(ds, 0)

\* re.search(r'\((\d+) available\)', s): the leftmost position at which
\* "(", one or more digits and " available)" follow each other.  The result
\* tells whether there is a match and group(1).
AvailableSuffix == <<" ", "available", ")">>

RECURSIVE DigitRun(_, _)
DigitRun(s, i) == IF i <= Len(s) /\ s[i] \in Digits THEN 1 + DigitRun(s, i + 1) ELSE 0

M_SearchAvailableFrom_Rightmost(s, i) ==
    LET hits == {j \in i..Len(s) : s[j] = "(" /\ DigitRun(s, j + 1) >= 1
                                   /\ OccursAt(s, AvailableSuffix, j + 1 + DigitRun(s, j + 1))}
    IN  IF hits = {} THEN [matched |-> FALSE, group1 |-> <<>>]
        ELSE LET j == CHOOSE x \in hits : \A y \in hits : y <= x
             IN  [matched |-> TRUE, group1 |-> SubSeq(s, j + 1, j + DigitRun(s, j + 1))]

RECURSIVE SearchAvailableFrom(_, _)
SearchAvailableFrom(s, i) ==
    IF i > Len(s) THEN [matched |-> FALSE, group1 |-> <<>>]
    ELSE LET n == DigitRun(s, i + 1) IN
         IF s[i] = "(" /\ n >= 1 /\ OccursAt(s, AvailableSuffix, i + 1 + n)
         THEN [matched |-> TRUE, group1 |-> SubSeq(s, i + 1, i + n)]
         ELSE SearchAvailableFrom(s, i + 1)

-----------------------------------------------------------------------------
\* Detail pages, by the elements scrape_book_details_simple looks up.

\* the URLs handed to scrape_book_details_simple when it is run on its own
BookUrls == { <<"catalogue", "b1", "index.html">>, <<"b2", "index.html">> }

\* soup.find('h1')
TitleTags ==
    { [found |-> FALSE, text |-> ""],
      [found |-> TRUE, text |-> "A Light in the Attic"] }

\* a <tr> of the product table: its <th> and <td>, either of which may be absent
Row(header, value) == [th |-> TRUE, header |-> header, td |-> TRUE, value |-> value]

RowNoTh == [th |-> FALSE, header |-> "", td |-> TRUE, value |-> "x"]

RowNoTd == [th |-> TRUE, header |-> "UPC", td |-> FALSE, value |-> ""]

TableRows ==
    { Row("UPC", "a897fe39b1053632"), Row("UPC", "90fa61229261140a"),
      Row("Price (incl. tax)", "£53.74"), Row("Price (excl. tax)", "£51.77"),
      Row("Tax", "£0.00"), RowNoTh, RowNoTd }

\* soup.find('table', class_='table table-striped')
TableTags ==
    { [found |-> FALSE, rows |-> <<>>] }
    \cup [found : {TRUE}, rows : UNION {[1..n -> TableRows] : n \in 0..MaxRows}]

\* soup.find('p', class_='instock availability'): the text of the element
InStock22 == <<"\n", " ", "In stock", " ", "(", "2", "2", " ", "available", ")", "\n">>

AvailabilityTexts ==
    { InStock22,
      <<"In stock">>,
      <<" ", "In stock", "\n">>,
      <<"(", "0", "0", "7", " ", "available", ")", " ", "(", "2", " ", "available", ")">>,
      <<"2", " ", "available", ")", " ", "(", "1", "9", " ", "available", ")">>,
      <<"(", "(", "3", "0", " ", "available", ")">>,
      <<"(", " ", "available", ")">>,
      <<"(", "5", "available", ")">>,
      <<"(", "5", " ", "available">>,
      <<" ", "\n">> }

AvailabilityTags ==
    { [found |-> FALSE, text |-> <<>>] } \cup [found : {TRUE}, text : AvailabilityTexts]

\* soup.find('div', id='product_description') and its next sibling <p>
NoDescription == "No description found."

DescriptionTags ==
    { [div |-> FALSE, p |-> FALSE, text |-> ""],
      [div |-> TRUE, p |-> FALSE, text |-> ""],
      [div |-> TRUE, p |-> TRUE, text |-> "It's hard to imagine a world without it."],
      [div |-> TRUE, p |-> TRUE, text |-> ""],
      [div |-> TRUE, p |-> TRUE, text |-> NoDescription] }

\* soup.find('ul', class_='breadcrumb'): its <li> entries, each with or
\* without an <a>
Crumbs ==
    { [a |-> FALSE, text |-> ""], [a |-> TRUE, text |-> "Books"], [a |-> TRUE, text |-> "Poetry"] }

BreadcrumbTags ==
    { [found |-> FALSE, items |-> <<>>] }
    \cup [found : {TRUE}, items : UNION {[1..n -> Crumbs] : n \in 0..MaxCrumbs}]

\* the <p> elements of the page in document order, each by its class tokens
\* (a <p> without class attribute has none).  StarMarkers are the tokens
\* that contain the text 'star-rating'.
RatingWords == <<"One", "Two", "Three", "Four", "Five">>

StarMarkers == {"star-rating", "star-rating-lg"}

OtherTokens == {"One", "Two", "Three", "Four", "Five", "Zero", "price_color"}

TokenSets(k) == {c \in SUBSET OtherTokens : Cardinality(c) <= k}

ClassLists ==
    TokenSets(MaxClasses) \cup {c \cup {m} : c \in TokenSets(MaxClasses), m \in StarMarkers}

PTagLists == {<<>>} \cup {<<c>> : c \in ClassLists} \cup {<<c, d>> : c \in TokenSets(1), d \in ClassLists}

\* soup.find('div', class_='item active'), its <img> and the src attribute
ImageSrcs ==
    { <<"..", "/", "..", "/", "media", "/", "a.jpg">>,
      <<"..", "/", "..", "/", "..", "/", "..", "/", "media", "/", "a.jpg">>,
      <<"media", "/", "..", "/", "..", "/", "a.jpg">>,
      <<"media", "/", "a.jpg">> }

ImageTags ==
    { [div |-> FALSE, img |-> FALSE, hasSrc |-> FALSE, src |-> <<>>],
      [div |-> TRUE, img |-> FALSE, hasSrc |-> FALSE, src |-> <<>>],
      [div |-> TRUE, img |-> TRUE, hasSrc |-> FALSE, src |-> <<>>] }
    \cup [div : {TRUE}, img : {TRUE}, hasSrc : {TRUE}, src : ImageSrcs]

\* what requests.get + raise_for_status yields for a detail page
DetailFetches == {"ok", "ConnectionError", "HTTPError"}

-----------------------------------------------------------------------------
\* scrape_book_details_simple

\* a quantity_available value: the str '' / the raw text, or an int
StrValue(s) == [type |-> "str", str |-> s, int |-> 0]

IntValue(n) == [type |-> "int", str |-> <<>>, int |-> n]

\* lines 27-38
InitialBookData(url) ==
    [product_page_url |-> url,
     universal_product_code |-> "",
     book_title |-> "",
     price_including_tax |-> "",
     price_excluding_tax |-> "",
     quantity_available |-> StrValue(<<>>),
     product_description |-> "",
     category |-> "",
     review_rating |-> "",
     image_url |-> <<>>]

NoBookData == InitialBookData(<<>>)

\* the URL as the string the code splits: scheme and host, then "/" and a
\* path segment for every segment
SiteHost == "https://books.toscrape.com"

RECURSIVE PathString(_)
PathString(url) == IF url = <<>> THEN <<>> ELSE <<"/", Head(url)>> \o PathString(Tail(url))

UrlString(url) == <<SiteHost>> \o PathString(url)

\* lines 52-61: the for loop over the table rows.  row.find('th') is None for
\* a row without <th> (row.find('td') for one without <td>) and
\* None.get_text raises AttributeError.
RECURSIVE ScanRows(_, _)
ScanRows(rows, data) ==
    IF rows = <<>> THEN [data |-> data, exc |-> "none"]
    ELSE LET row == Head(rows) IN
         IF ~row.th \/ ~row.td THEN [data |-> data, exc |-> "AttributeError"]
         ELSE ScanRows(Tail(rows),
                 IF row.header = "UPC"
                 THEN [data EXCEPT !.universal_product_code = row.value]
                 ELSE IF row.header = "Price (incl. tax)"
                 THEN [data EXCEPT !.price_including_tax = row.value]
                 ELSE IF row.header = "Price (excl. tax)"
                 THEN [data EXCEPT !.price_excluding_tax = row.value]
                 ELSE data)

\* lines 66-74
M_QuantityOf_AlwaysText(tag, old) ==
    IF tag.found THEN StrValue(Strip(tag.text)) ELSE old

QuantityOf(tag, old) ==
    IF tag.found
    THEN LET stock_text == Strip(tag.text)
             match == SearchAvailableFrom(stock_text, 1)
         IN  IF match.matched THEN IntValue(IntOf(match.group1)) ELSE StrValue(stock_text)
    ELSE old

\* lines 77-86
M_DescriptionOf_KeepDefault(tag, old) ==
    IF tag.div /\ tag.p THEN tag.text ELSE old

DescriptionOf(tag, old) ==
    IF tag.div
    THEN IF tag.p THEN tag.text ELSE NoDescription
    ELSE NoDescription

\* lines 90-97
CategoryOf(tag, old) ==
    IF tag.found /\ Len(tag.items) >= 3 /\ tag.items[3].a THEN tag.items[3].text ELSE old

\* line 100: the first <p> one of whose class tokens contains 'star-rating'
\* (0 when there is none)
ContainsStarRating(token) == token \in StarMarkers

RECURSIVE FindStarRatingFrom(_, _)
FindStarRatingFrom(ptags, i) ==
    IF i > Len(ptags) THEN 0
    ELSE IF \E token \in ptags[i] : ContainsStarRating(token) THEN i
    ELSE FindStarRatingFrom(ptags, i + 1)

\* lines 105-110: the for ... else over the rating words
RECURSIVE FirstRatingWord(_, _)
FirstRatingWord(class_list, i) ==
    IF i > Len(RatingWords) THEN "Unknown"
    ELSE IF RatingWords[i] \in class_list THEN RatingWords[i]
    ELSE FirstRatingWord(class_list, i + 1)

\* lines 100-110
M_RatingOf_UnknownWhenAbsent(ptags, old) ==
    LET k == FindStarRatingFrom(ptags, 1)
    IN  IF k > 0 THEN FirstRatingWord(ptags[k], 1) ELSE "Unknown"

RatingOf(ptags, old) ==
    LET k == FindStarRatingFrom(ptags, 1)
    IN  IF k > 0 THEN FirstRatingWord(ptags[k], 1) ELSE old

\* lines 113-123
ImageUrlOf(tag, url, old) ==
    IF tag.div /\ tag.img /\ tag.hasSrc
    THEN LET relative_path == tag.src
             base_site_url == SplitFirst(UrlString(url), <<"/", "catalogue", "/">>) \o <<"/">>
             clean_relative_path == RemoveAll(relative_path, <<"..", "/", "..", "/">>)
         IN  base_site_url \o clean_relative_path
    ELSE old

\* lines 127-132: the except clauses; both return None
DetailCaught(exc) == IsRequestException(exc) \/ IsException(exc)

\* what the log keeps of the page
InitialDetailLog ==
    [fetch |-> "none",
     title |-> [found |-> FALSE, text |-> ""],
     tableFound |-> FALSE,
     tableBadRow |-> FALSE,
     tableHeaders |-> {},
     availability |-> [found |-> FALSE, text |-> <<>>],
     description |-> [div |-> FALSE, p |-> FALSE, text |-> ""],
     crumbs |-> 0,
     crumbThird |-> [a |-> FALSE, text |-> ""],
     starFound |-> FALSE,
     starClasses |-> {},
     image |-> [div |-> FALSE, img |-> FALSE, hasSrc |-> FALSE, src |-> <<>>]]

\* lines 18-38: the call, the fetch and the initial dictionary
ScrapeFetch(url, fetch) ==
    /\ pcD = "idle"
    /\ book_url' = url
    /\ detailLog' = [InitialDetailLog EXCEPT !.fetch = fetch]
    /\ IF fetch = "ok"
       THEN /\ book_data' = InitialBookData(url)
            /\ scrape_ret' = "pending"
            /\ pcD' = "title"
       ELSE /\ book_data' = NoBookData
            /\ scrape_ret' = IF DetailCaught(fetch) THEN "None" ELSE "raised"
            /\ pcD' = "done"
    /\ UNCHANGED notDetailVars

\* lines 43-45
ScrapeTitle(tag) ==
    /\ pcD = "title"
    /\ book_data' = IF tag.found THEN [book_data EXCEPT !.book_title = tag.text] ELSE book_data
    /\ detailLog' = [detailLog EXCEPT !.title = tag]
    /\ pcD' = "table"
    /\ UNCHANGED <<book_url, scrape_ret, notDetailVars>>

\* lines 49-61, and lines 130-132 when a row raises
ScrapeTable(tag) ==
    /\ pcD = "table"
    /\ detailLog' = [detailLog EXCEPT
                        !.tableFound = tag.found,
                        !.tableBadRow = \E i \in 1..Len(tag.rows) : ~tag.rows[i].th \/ ~tag.rows[i].td,
                        !.tableHeaders = {tag.rows[i].header : i \in {j \in 1..Len(tag.rows) : tag.rows[j].th /\ tag.rows[j].td}}]
    /\ LET scan == IF tag.found THEN ScanRows(tag.rows, book_data)
                   ELSE [data |-> book_data, exc |-> "none"]
       IN  IF scan.exc = "none"
           THEN /\ book_data' = scan.data
                /\ pcD' = "availability"
                /\ UNCHANGED scrape_ret
           ELSE /\ book_data' = NoBookData
                /\ scrape_ret' = IF DetailCaught(scan.exc) THEN "None" ELSE "raised"
                /\ pcD' = "done"
    /\ UNCHANGED <<book_url, notDetailVars>>

\* lines 66-74
ScrapeAvailability(tag) ==
    /\ pcD = "availability"
    /\ book_data' = [book_data EXCEPT !.quantity_available = QuantityOf(tag, @)]
    /\ detailLog' = [detailLog EXCEPT !.availability = tag]
    /\ pcD' = "description"
    /\ UNCHANGED <<book_url, scrape_ret, notDetailVars>>

\* lines 77-86
ScrapeDescription(tag) ==
    /\ pcD = "description"
    /\ book_data' = [book_data EXCEPT !.product_description = DescriptionOf(tag, @)]
    /\ detailLog' = [detailLog EXCEPT !.description = tag]
    /\ pcD' = "breadcrumb"
    /\ UNCHANGED <<book_url, scrape_ret, notDetailVars>>

\* lines 90-97
ScrapeCategory(tag) ==
    /\ pcD = "breadcrumb"
    /\ book_data' = [book_data EXCEPT !.category = CategoryOf(tag, @)]
    /\ detailLog' = [detailLog EXCEPT
                        !.crumbs = IF tag.found THEN Len(tag.items) ELSE 0,
                        !.crumbThird = IF tag.found /\ Len(tag.items) >= 3
                                       THEN tag.items[3] ELSE [a |-> FALSE, text |-> ""]]
    /\ pcD' = "rating"
    /\ UNCHANGED <<book_url, scrape_ret, notDetailVars>>

\* lines 100-110
ScrapeRating(ptags) ==
    /\ pcD = "rating"
    /\ book_data' = [book_data EXCEPT !.review_rating = RatingOf(ptags, @)]
    /\ detailLog' = [detailLog EXCEPT
                        !.starFound = \E i \in 1..Len(ptags) : ptags[i] \cap StarMarkers # {},
                        !.starClasses =
                            IF \E i \in 1..Len(ptags) : ptags[i] \cap StarMarkers # {}
                            THEN ptags[CHOOSE i \in 1..Len(ptags) :
                                         /\ ptags[i] \cap StarMarkers # {}
                                         /\ \A j \in 1..(i - 1) : ptags[j] \cap StarMarkers = {}]
                            ELSE {}]
    /\ pcD' = "image"
    /\ UNCHANGED <<book_url, scrape_ret, notDetailVars>>

\* lines 113-125: the image URL, and return book_data
ScrapeImage(tag) ==
    /\ pcD = "image"
    /\ book_data' = [book_data EXCEPT !.image_url = ImageUrlOf(tag, book_url, @)]
    /\ detailLog' = [detailLog EXCEPT !.image = tag]
    /\ scrape_ret' = "dict"
    /\ pcD' = "done"
    /\ UNCHANGED <<book_url, notDetailVars>>

InitDetail ==
    /\ pcD = "idle"
    /\ book_url = <<>>
    /\ book_data = NoBookData
    /\ scrape_ret = "pending"
    /\ detailLog = InitialDetailLog

\* one step of scrape_book_details_simple on a page whose elements are
\* drawn from the given sets
NextDetailOf(urls, titles, tables, availabilities, descriptions, breadcrumbs, ptaglists, images) ==
    \/ \E url \in urls, fetch \in DetailFetches : ScrapeFetch(url, fetch) /\ UNCHANGED mainVars
    \/ \E tag \in titles : ScrapeTitle(tag) /\ UNCHANGED mainVars
    \/ \E tag \in tables : ScrapeTable(tag) /\ UNCHANGED mainVars
    \/ \E tag \in availabilities : ScrapeAvailability(tag) /\ UNCHANGED mainVars
    \/ \E tag \in descriptions : ScrapeDescription(tag) /\ UNCHANGED mainVars
    \/ \E tag \in breadcrumbs : ScrapeCategory(tag) /\ UNCHANGED mainVars
    \/ \E ptags \in ptaglists : ScrapeRating(ptags) /\ UNCHANGED mainVars
    \/ \E tag \in images : ScrapeImage(tag) /\ UNCHANGED mainVars

\* a page element of the site as it is, or absent
SiteTables ==
    { [found |-> FALSE, rows |-> <<>>],
      [found |-> TRUE, rows |-> <<Row("UPC", "a897fe39b1053632"), Row("Price (excl. tax)", "£51.77"),
                                  Row("Price (incl. tax)", "£53.74")>>] }

SiteAvailabilities == { [found |-> FALSE, text |-> <<>>], [found |-> TRUE, text |-> InStock22] }

SiteDescriptions ==
    { [div |-> FALSE, p |-> FALSE, text |-> ""],
      [div |-> TRUE, p |-> TRUE, text |-> "It's hard to imagine a world without it."] }

SiteBreadcrumbs ==
    { [found |-> FALSE, items |-> <<>>],
      [found |-> TRUE, items |-> <<[a |-> TRUE, text |-> "Books"], [a |-> TRUE, text |-> "Books"],
                                   [a |-> TRUE, text |-> "Poetry"]>>] }

SitePTagLists == { <<>>, <<{"price_color"}, {"star-rating", "Three"}>> }

SiteImages ==
    { [div |-> FALSE, img |-> FALSE, hasSrc |-> FALSE, src |-> <<>>],
      [div |-> TRUE, img |-> TRUE, hasSrc |-> TRUE,
       src |-> <<"..", "/", "..", "/", "media", "/", "a.jpg">>] }

\* the table, the availability block and the description vary over all
\* their shapes
NextDetail ==
    NextDetailOf({<<"catalogue", "b1", "index.html">>}, TitleTags, TableTags, AvailabilityTags,
                 DescriptionTags, SiteBreadcrumbs, SitePTagLists, SiteImages)

\* the breadcrumb, the <p> elements and the image container vary over all
\* their shapes
NextDetailTags ==
    NextDetailOf(BookUrls, TitleTags, SiteTables, SiteAvailabilities, SiteDescriptions,
                 BreadcrumbTags, PTagLists, ImageTags)

-----------------------------------------------------------------------------
\* export_books_to_csv (Phase3.py 134-185), export_to_csv_simple (Phase2.py
\* 134-179)

\* Characters of a category name.  \w of a str pattern is a Unicode word
\* character: a letter or digit of any script, or the underscore.
AsciiLetters == {"a", "Z", "A", "b", "r", "t"}

\* the letters of the names that export_books_to_csv is run on, name by name
NameLetters == {"a", "Z"}

OtherLetters == {"é"}

NameDigits == {"7"}

NameChars == NameLetters \cup OtherLetters \cup NameDigits \cup {"_", "-", " ", "\t", "&"}

IsWordChar(c) == c \in AsciiLetters \cup OtherLetters \cup NameDigits \cup {"_"}

\* category_name.replace(' ', '_')
M_ReplaceSpaces_Drop(name) == SelectSeq(name, LAMBDA c : c # " ")

ReplaceSpaces(name) == [i \in 1..Len(name) |-> IF name[i] = " " THEN "_" ELSE name[i]]

\* re.sub(r'[^\w-]', '', s)
RECURSIVE RemoveNonWord(_)
RemoveNonWord(str) ==
    IF str = <<>> THEN <<>>
    ELSE IF IsWordChar(Head(str)) \/ Head(str) = "-"
         THEN <<Head(str)>> \o RemoveNonWord(Tail(str))
         ELSE RemoveNonWord(Tail(str))

\* lines 160-161
CleanCategoryName(category_name) == RemoveNonWord(ReplaceSpaces(category_name))

BaseFilename == <<"_", "books_details.csv">>

FilenameOf(category_name) == CleanCategoryName(category_name) \o BaseFilename

\* the rows of a file: the header row, a row written from a record, or a
\* row the file held before
HeaderRow == [kind |-> "header", data |-> NoBookData]

RecordRow(row_data) == [kind |-> "record", data |-> row_data]

OldRow == [kind |-> "old", data |-> NoBookData]

\* os.path.exists(filename); os.stat(filename).st_size
FileExists(fs, filename) == filename \in DOMAIN fs

FileSize(fs, filename) == Len(fs[filename])

\* Phase3.py 164-182 (Phase2.py 158-176): the header decision and the
\* appending open, writeheader and writerow calls
M_AppendCsv_HeaderAlways(fs, filename, data) ==
    LET old == IF FileExists(fs, filename) THEN fs[filename] ELSE <<>>
        new == old \o <<HeaderRow>> \o [i \in 1..Len(data) |-> RecordRow(data[i])]
    IN  [f \in DOMAIN fs \cup {filename} |-> IF f = filename THEN new ELSE fs[f]]

AppendCsv(fs, filename, data) ==
    LET file_exists == FileExists(fs, filename)
        write_header == ~file_exists \/ FileSize(fs, filename) = 0
        old == IF file_exists THEN fs[filename] ELSE <<>>
        new == old \o (IF write_header THEN <<HeaderRow>> ELSE <<>>)
                   \o [i \in 1..Len(data) |-> RecordRow(data[i])]
    IN  [f \in DOMAIN fs \cup {filename} |-> IF f = filename THEN new ELSE fs[f]]

\* Phase3.py 134-185.  The writes are taken to succeed: the IOError branch
\* of lines 184-185 only prints.
ExportBooksToCsv(data, category_name) ==
    /\ Len(exportLog) < MaxCalls
    /\ files' = AppendCsv(files, FilenameOf(category_name), data)
    /\ exportLog' = Append(exportLog, [filename |-> FilenameOf(category_name),
                                       category_name |-> category_name, data |-> data])
    /\ UNCHANGED <<files0, notExportVars>>

\* Phase2.py 134-179
ExportToCsvSimple(data, filename) ==
    /\ Len(exportLog) < MaxCalls
    /\ files' = AppendCsv(files, filename, data)
    /\ exportLog' = Append(exportLog, [filename |-> filename, category_name |-> <<>>, data |-> data])
    /\ UNCHANGED <<files0, notExportVars>>

\* the records handed to the export functions on their own
ExportRecordPair ==
    << InitialBookData(<<"catalogue", "b1", "index.html">>),
       [InitialBookData(<<"catalogue", "b2", "index.html">>) EXCEPT
           !.book_title = "Soumission", !.quantity_available = IntValue(22)] >>

ExportRecords == {ExportRecordPair[1], ExportRecordPair[2]}

\* the batches: of every length up to MaxBatch, the two records in turn,
\* starting with either
ExportBatches ==
    {<<>>} \cup {[i \in 1..n |-> ExportRecordPair[((i + k) % 2) + 1]] : n \in 1..MaxBatch, k \in 0..1}

\* two category names, and a file name of Phase2.py's caller
ExportNames == { <<"A", "r", "t">>, <<"A", " ", "b">> }

SimpleFilenames == { <<"travel_books_details.csv">>, FilenameOf(<<"A", "r", "t">>) }

\* the file system before the first call: each file absent, empty or holding
\* a row
TouchedFilenames == {FilenameOf(n) : n \in ExportNames} \cup SimpleFilenames

FileSystems ==
    UNION {[present -> {<<>>, <<OldRow>>}] : present \in SUBSET TouchedFilenames}

NoFiles == [f \in {} |-> <<>>]

InitExport ==
    /\ files = NoFiles
    /\ files0 = NoFiles
    /\ exportLog = <<>>

\* the export functions on their own, on any file system
InitExportOn(systems) ==
    /\ files \in systems
    /\ files0 = files
    /\ exportLog = <<>>

NextExport ==
    \/ \E data \in ExportBatches, name \in ExportNames :
          ExportBooksToCsv(data, name) /\ UNCHANGED mainVars
    \/ \E data \in ExportBatches, filename \in SimpleFilenames :
          ExportToCsvSimple(data, filename) /\ UNCHANGED mainVars

\* export_books_to_csv on every category name of the model, one record
CategoryNames == UNION {[1..n -> NameChars] : n \in 0..MaxNameLen}

NextExportNames ==
    \E data \in {<<r>> : r \in ExportRecords}, name \in CategoryNames :
        exportLog = <<>> /\ ExportBooksToCsv(data, name) /\ UNCHANGED mainVars

-----------------------------------------------------------------------------
\* get_all_categories_with_links (Phase3.py 187-225)

\* the root page, by the elements the function looks up: the div
\* side_categories, the ul nav-list inside it with its link of the outer
\* list item ('Books', the umbrella of all books), and the lists nested in the
\* nav-list in document order, each by its links.  A link has its text and
\* may lack the href attribute.
MainUrl == <<"index.html">>

CategoryLinkTexts == { <<"\n", " ", "A", "r", "t", "\n">>, <<"A", " ", "b">>, <<"a", "\t", "é">> }

CategoryHrefs == { <<"cat", "art", "index.html">>, <<"cat", "ab", "index.html">> }

CategoryLinks ==
    [text : CategoryLinkTexts, hasHref : {TRUE}, href : CategoryHrefs]
    \cup [text : CategoryLinkTexts, hasHref : {FALSE}, href : {<<>>}]

UmbrellaLink == [text |-> <<"B", "o", "o", "k", "s">>, hasHref |-> TRUE, href |-> <<"cat", "index.html">>]

\* a second list nested in the nav-list, after the first
LaterNestedList == <<[text |-> <<"Z">>, hasHref |-> TRUE, href |-> <<"cat", "z", "index.html">>]>>

CategoryLinkLists == UNION {[1..n -> CategoryLinks] : n \in 0..MaxCategoryLinks}

NoRootPage == [side |-> FALSE, nav |-> FALSE, nested |-> <<>>]

RootPages ==
    { NoRootPage, [side |-> TRUE, nav |-> FALSE, nested |-> <<>>] }
    \cup [side : {TRUE}, nav : {TRUE},
          nested : {<<>>} \cup {<<l>> : l \in CategoryLinkLists}
                   \cup {<<l, LaterNestedList>> : l \in CategoryLinkLists}]

RootResponses ==
    [ok : {TRUE}, error : {"none"}, page : RootPages]
    \cup [ok : {FALSE}, error : {"ConnectionError", "HTTPError"}, page : {NoRootPage}]

\* lines 213-218: the for loop over category_links.  link_tag['href'] raises
\* KeyError for a link without href.
M_ScanCategoryLinks_WithUmbrella(links, main_url, acc) ==
    [categories |-> <<[name |-> Strip(UmbrellaLink.text), url |-> urljoin(main_url, UmbrellaLink.href)]>>
                    \o [i \in 1..Len(links) |-> [name |-> Strip(links[i].text),
                                                 url |-> urljoin(main_url, links[i].href)]],
     exc |-> IF \E i \in 1..Len(links) : ~links[i].hasHref THEN "KeyError" ELSE "none"]

M_ScanCategoryLinks_SkipNoHref(links, main_url, acc) ==
    LET kept == SelectSeq(links, LAMBDA link_tag : link_tag.hasHref)
    IN  [categories |-> acc \o [i \in 1..Len(kept) |-> [name |-> Strip(kept[i].text),
                                                       url |-> urljoin(main_url, kept[i].href)]],
         exc |-> "none"]

RECURSIVE ScanCategoryLinks(_, _, _)
ScanCategoryLinks(links, main_url, acc) ==
    IF links = <<>> THEN [categories |-> acc, exc |-> "none"]
    ELSE LET link_tag == Head(links) IN
         IF ~link_tag.hasHref THEN [categories |-> acc, exc |-> "KeyError"]
         ELSE ScanCategoryLinks(Tail(links), main_url,
                 Append(acc, [name |-> Strip(link_tag.text), url |-> urljoin(main_url, link_tag.href)]))

\* lines 201-219: the try body
CategoriesTryBody(resp, main_url) ==
    IF ~resp.ok THEN [categories |-> <<>>, exc |-> resp.error]
    ELSE LET soup == resp.page IN
         IF soup.side /\ soup.nav /\ soup.nested # <<>>
         THEN ScanCategoryLinks(soup.nested[1], main_url, <<>>)
         ELSE [categories |-> <<>>, exc |-> "none"]

\* lines 220-225: the except clauses; both return []
CategoriesCaught(exc) == IsRequestException(exc) \/ IsException(exc)

\* lines 199-225
GetAllCategoriesWithLinks(resp) ==
    /\ categories_ret = "pending"
    /\ rootLog' = resp
    /\ LET r == CategoriesTryBody(resp, MainUrl)
       IN  IF r.exc = "none"
           THEN categories' = r.categories /\ categories_ret' = "list"
           ELSE IF CategoriesCaught(r.exc)
           THEN categories' = <<>> /\ categories_ret' = "list"
           ELSE categories' = <<>> /\ categories_ret' = "raised"
    /\ UNCHANGED notCategoryVars

InitCategories ==
    /\ categories_ret = "pending"
    /\ categories = <<>>
    /\ rootLog = [ok |-> FALSE, error |-> "none", page |-> NoRootPage]

NextCategories ==
    \E resp \in RootResponses : GetAllCategoriesWithLinks(resp) /\ UNCHANGED mainVars

-----------------------------------------------------------------------------
\* The __main__ block of Phase3.py (283-328)

\* lines 299-300
category_name == categories_with_links[category_i].name

category_url == categories_with_links[category_i].url

\* lines 314-316: 'if book_details:' holds for the dictionary, which always
\* has its ten keys, and fails for None
M_CollectBook_KeepFailed(books, ret, book_details) == Append(books, book_details)

CollectBook(books, ret, book_details) ==
    IF ret = "dict" THEN Append(books, book_details) ELSE books

\* line 312: the inner for loop goes to its next link, or is over
M_AfterScrape_BackToLinks(j, n) == IF j + 1 > n THEN "export" ELSE "links"

AfterScrape(j, n) == IF j + 1 > n THEN "export" ELSE "scrape"

\* an entry of the trace: a fetch of the root page, of a listing page or of
\* a detail page, or an export, and the category (i + 1) it was made for
CrawlEvent(kind, i) == [kind |-> kind, category |-> i]

\* the last entry of the log, changed
LogLast(log, entry) == [log EXCEPT ![Len(log)] = entry]

\* lines 291-296: get_all_categories_with_links(main_site_url) and the test
\* of its result
MainStart(resp) ==
    /\ pcM = "start"
    /\ GetAllCategoriesWithLinks(resp)
    /\ categories_with_links' = categories'
    /\ category_i' = 1
    /\ pcM' = IF categories_ret' = "raised" THEN "raised"
              ELSE IF categories' = <<>> THEN "end" ELSE "links"
    /\ crawlTrace' = Append(crawlTrace, CrawlEvent("root", 0))
    /\ UNCHANGED <<book_urls_in_category, book_j, books_in_current_category,
                   total_books_scraped, mainLog>>

\* lines 298-306: the head of the outer loop and the call of
\* get_all_book_links_in_category(category_url)
MainCategory ==
    /\ pcM = "links"
    /\ LinksCall(category_url)
    /\ books_in_current_category' = <<>>
    /\ mainLog' = Append(mainLog, [name |-> category_name, url |-> category_url,
                                   links |-> <<>>, results |-> <<>>, done |-> FALSE])
    /\ UNCHANGED <<pcM, categories_with_links, category_i, book_urls_in_category, book_j,
                   total_books_scraped, crawlTrace>>

\* a pass of the while loop of get_all_book_links_in_category, called at line 306
MainLinksIteration(resp) ==
    /\ pcM = "links"
    /\ LinksIteration(resp)
    /\ crawlTrace' = Append(crawlTrace, CrawlEvent("listing", category_i))
    /\ UNCHANGED <<pcM, categories_with_links, category_i, book_urls_in_category, book_j,
                   books_in_current_category, total_books_scraped, mainLog>>

\* lines 306-311: the call returns, or its exception reaches the block
MainLinksReturned ==
    /\ pcM = "links"
    /\ pcL \in {"done", "raised"}
    /\ pcL' = "idle"
    /\ book_urls_in_category' = all_book_links
    /\ book_j' = 1
    /\ mainLog' = LogLast(mainLog, [mainLog[Len(mainLog)] EXCEPT !.links = all_book_links])
    /\ pcM' = IF pcL = "raised" THEN "raised"
              ELSE IF all_book_links = <<>> THEN "export" ELSE "scrape"
    /\ UNCHANGED <<category_base_url, current_page_url, all_book_links, page_num, fetchLog, site>>
    /\ UNCHANGED <<categories_with_links, category_i, books_in_current_category,
                   total_books_scraped, crawlTrace>>
    /\ UNCHANGED notLinkVars

\* line 313: the call scrape_book_details_simple(book_url)
MainScrapeCall(fetch) ==
    /\ pcM = "scrape"
    /\ ScrapeFetch(book_urls_in_category[book_j], fetch)
    /\ crawlTrace' = Append(crawlTrace, CrawlEvent("detail", category_i))
    /\ UNCHANGED <<pcM, categories_with_links, category_i, book_urls_in_category, book_j,
                   books_in_current_category, total_books_scraped, mainLog>>

\* lines 313-319: the call returns, or its exception reaches the block
MainScrapeReturned ==
    /\ pcM = "scrape"
    /\ pcD = "done"
    /\ pcD' = "idle"
    /\ books_in_current_category' = CollectBook(books_in_current_category, scrape_ret, book_data)
    /\ total_books_scraped' = IF scrape_ret = "dict" THEN total_books_scraped + 1
                              ELSE total_books_scraped
    /\ mainLog' = LogLast(mainLog,
                          [mainLog[Len(mainLog)] EXCEPT
                              !.results = Append(@, [url |-> book_urls_in_category[book_j],
                                                     ret |-> scrape_ret,
                                                     book_details |-> book_data])])
    /\ book_j' = book_j + 1
    /\ pcM' = IF scrape_ret = "raised" THEN "raised"
              ELSE AfterScrape(book_j, Len(book_urls_in_category))
    /\ UNCHANGED <<book_url, book_data, scrape_ret, detailLog>>
    /\ UNCHANGED <<categories_with_links, category_i, book_urls_in_category, crawlTrace>>
    /\ UNCHANGED notDetailVars

\* lines 321-326: the batch of the category goes to export_books_to_csv
\* when it is not empty; then the next category, or the end
MainExport ==
    /\ pcM = "export"
    /\ IF books_in_current_category # <<>>
       THEN ExportBooksToCsv(books_in_current_category, category_name)
       ELSE UNCHANGED <<exportVars, notExportVars>>
    /\ mainLog' = LogLast(mainLog, [mainLog[Len(mainLog)] EXCEPT !.done = TRUE])
    /\ crawlTrace' = IF books_in_current_category # <<>>
                     THEN Append(crawlTrace, CrawlEvent("export", category_i))
                     ELSE crawlTrace
    /\ category_i' = category_i + 1
    /\ pcM' = IF category_i + 1 > Len(categories_with_links) THEN "end" ELSE "links"
    /\ UNCHANGED <<categories_with_links, book_urls_in_category, book_j,
                   books_in_current_category, total_books_scraped>>

InitMain ==
    /\ pcM = "start"
    /\ categories_with_links = <<>>
    /\ category_i = 1
    /\ book_urls_in_category = <<>>
    /\ book_j = 1
    /\ books_in_current_category = <<>>
    /\ total_books_scraped = 0
    /\ mainLog = <<>>
    /\ crawlTrace = <<>>

\* a link of the nested category list
CrawlLink(text, dir) == [text |-> text, hasHref |-> TRUE, href |-> <<"cat", dir, "index.html">>]

CrawlLinkNoHref(text) == [text |-> text, hasHref |-> FALSE, href |-> <<>>]

\* a root page whose nested list holds these links
CrawlRoot(links) ==
    [ok |-> TRUE, error |-> "none",
     page |-> [side |-> TRUE, nav |-> TRUE, nested |-> IF links = <<>> THEN <<>> ELSE <<links>>]]

\* the site of a crawl: no root page; a root page without nested list; one
\* with two categories; one with two categories whose names differ by a
\* space and an underscore; one whose second link, and one whose first
\* link, carries no href
CrawlRootResponses ==
    { [ok |-> FALSE, error |-> "ConnectionError", page |-> NoRootPage],
      CrawlRoot(<<>>),
      CrawlRoot(<<CrawlLink(<<"\n", " ", "A", "r", "t", "\n">>, "art"), CrawlLink(<<"A", " ", "b">>, "ab")>>),
      CrawlRoot(<<CrawlLink(<<"A", " ", "b">>, "ab"), CrawlLink(<<"A", "_", "b">>, "a_b")>>),
      CrawlRoot(<<CrawlLink(<<"A", "r", "t">>, "art"), CrawlLinkNoHref(<<"A", " ", "b">>)>>),
      CrawlRoot(<<CrawlLinkNoHref(<<"A", "r", "t">>), CrawlLink(<<"A", " ", "b">>, "ab")>>) }

\* listing pages of a crawl: three books, one book and a further page, a
\* book and an entry without heading, the same book twice, or no page
CrawlListingResponses ==
    { [ok |-> FALSE, error |-> "HTTPError", page |-> NoListingPage],
      [ok |-> TRUE, error |-> "none",
       page |-> [section |-> TRUE,
                 articles |-> <<ArticleLink(<<"..", "..", "b1", "index.html">>),
                                ArticleLink(<<"..", "b2", "index.html">>),
                                ArticleLink(<<"b3", "index.html">>)>>,
                 next |-> NextNone]],
      [ok |-> TRUE, error |-> "none",
       page |-> [section |-> TRUE,
                 articles |-> <<ArticleLink(<<"..", "..", "b1", "index.html">>)>>,
                 next |-> NextLink(<<"more", "page-2.html">>)]],
      [ok |-> TRUE, error |-> "none",
       page |-> [section |-> TRUE,
                 articles |-> <<ArticleLink(<<"..", "b2", "index.html">>), ArticleNoH3>>,
                 next |-> NextNone]],
      [ok |-> TRUE, error |-> "none",
       page |-> [section |-> TRUE,
                 articles |-> <<ArticleLink(<<"..", "..", "b1", "index.html">>),
                                ArticleLink(<<"..", "..", "b1", "index.html">>)>>,
                 next |-> NextNone]] }

\* product tables of a crawl: the site's, or one with a row without <th>
CrawlTables ==
    { t \in SiteTables : t.found } \cup { [found |-> TRUE, rows |-> <<RowNoTh>>] }

\* one step of the crawl.  Only the first listing page of a category links
\* a further page.
NextMain ==
    \/ \E resp \in CrawlRootResponses : MainStart(resp)
    \/ MainCategory
    \/ \E resp \in CrawlListingResponses :
          /\ resp.page.next.li => current_page_url = category_base_url
          /\ MainLinksIteration(resp)
    \/ MainLinksReturned
    \/ \E fetch \in DetailFetches : MainScrapeCall(fetch)
    \/ \E tag \in {t \in TitleTags : t.found} : pcM = "scrape" /\ ScrapeTitle(tag) /\ UNCHANGED mainVars
    \/ \E tag \in CrawlTables : pcM = "scrape" /\ ScrapeTable(tag) /\ UNCHANGED mainVars
    \/ \E tag \in {t \in SiteAvailabilities : t.found} :
          pcM = "scrape" /\ ScrapeAvailability(tag) /\ UNCHANGED mainVars
    \/ \E tag \in {t \in SiteDescriptions : t.div} :
          pcM = "scrape" /\ ScrapeDescription(tag) /\ UNCHANGED mainVars
    \/ \E tag \in {t \in SiteBreadcrumbs : t.found} :
          pcM = "scrape" /\ ScrapeCategory(tag) /\ UNCHANGED mainVars
    \/ \E ptags \in {t \in SitePTagLists : t # <<>>} :
          pcM = "scrape" /\ ScrapeRating(ptags) /\ UNCHANGED mainVars
    \/ \E tag \in {t \in SiteImages : t.div} : pcM = "scrape" /\ ScrapeImage(tag) /\ UNCHANGED mainVars
    \/ MainScrapeReturned
    \/ MainExport

-----------------------------------------------------------------------------
\* Properties of get_all_book_links_in_category

\* the links of the logged pages lo..hi, each resolved against the URL of
\* the page it was served on, pages in fetch order
RECURSIVE LinksOfPages(_, _, _)
LinksOfPages(log, lo, hi) ==
    IF lo > hi THEN <<>>
    ELSE [i \in 1..Len(log[lo].hrefs) |-> urljoin(log[lo].url, log[lo].hrefs[i])]
         \o LinksOfPages(log, lo + 1, hi)

\* the log is a chain of 'next' links from the category root
IsNextChain(log) ==
    /\ log # <<>>
    /\ log[1].url = category_base_url
    /\ \A i \in 1..(Len(log) - 1) :
          /\ log[i].next.li /\ log[i].next.a /\ log[i].next.hasHref
          /\ log[i + 1].url = urljoin(log[i].url, log[i].next.href)

\* every listing page served so far was fetched and is well formed, and the
\* last one carries no 'next' indicator
CompleteChain(log) ==
    /\ log # <<>>
    /\ \A i \in 1..Len(log) : log[i].ok /\ ~log[i].badArticle /\ ~log[i].badNext
    /\ ~log[Len(log)].next.li

\* C1: on a category whose listing pages are chained by 'next' links (page 1
\* -> ... -> page k, no 'next' on page k), every fetch succeeding and every
\* product entry holding its heading, the function returns exactly the
\* concatenation of each page's product links, pages in chain order and links
\* in document order within a page, and page k is the last page fetched.
C1_ChainConcatenation ==
    /\ (\E i \in 1..Len(fetchLog) : CompleteChain(SubSeq(fetchLog, 1, i)))
          => /\ pcL = "done"
             /\ CompleteChain(fetchLog)
    /\ (pcL \in {"done", "raised"} /\ CompleteChain(fetchLog))
          => /\ pcL = "done"
             /\ IsNextChain(fetchLog)
             /\ all_book_links = LinksOfPages(fetchLog, 1, Len(fetchLog))

\* a three-page chain with two product links on every page has been returned
C1_Witness ==
    /\ pcL = "done"
    /\ CompleteChain(fetchLog)
    /\ Len(fetchLog) = 3
    /\ \A i \in 1..3 : Len(fetchLog[i].hrefs) = 2 /\ fetchLog[i].hrefs[1] # fetchLog[i].hrefs[2]
    /\ Len(all_book_links) = 6

\* C2: if the fetch of listing page j fails (network error or non-success
\* status), the function returns exactly the links accumulated from pages
\* 1..j-1 (none when j = 1), fetches no further page, and returns normally.
C2_FetchFailurePartial ==
    \A j \in 1..Len(fetchLog) :
        ~fetchLog[j].ok
           => /\ j = Len(fetchLog)
              /\ pcL = "done"
              /\ all_book_links = LinksOfPages(fetchLog, 1, j - 1)

\* the fetch of page 2 failed after a first page with two links
C2_Witness ==
    /\ pcL = "done"
    /\ Len(fetchLog) = 2
    /\ fetchLog[1].ok /\ Len(fetchLog[1].hrefs) = 2
    /\ ~fetchLog[2].ok
    /\ Len(all_book_links) = 2

\* the fetch of page 1 failed
C2_WitnessFirst ==
    /\ pcL = "done"
    /\ Len(fetchLog) = 1
    /\ ~fetchLog[1].ok
    /\ all_book_links = <<>>

-----------------------------------------------------------------------------
\* Properties of scrape_book_details_simple

\* the function has returned a dictionary
ReturnedRecord == pcD = "done" /\ scrape_ret = "dict"

\* C3: for every successfully fetched detail page the function returns a
\* record, never None and never an exception: an absent element, a header
\* cell or value cell of a table row included, only leaves its field at the
\* default.  None is returned only when the fetch itself fails.
C3_RecordForEveryFetchedPage ==
    pcD = "done"
       => /\ scrape_ret # "raised"
          /\ (detailLog.fetch = "ok" => scrape_ret = "dict")
          /\ (scrape_ret = "None" => detailLog.fetch # "ok")

\* C4: review_rating of a returned record is the first word of One, Two,
\* Three, Four, Five that occurs among the class tokens of the star-rating
\* element; 'Unknown' when there is a star-rating element and it carries none
\* of the five words; the empty string when there is no star-rating element.
C4_ReviewRating ==
    ReturnedRecord
       => LET rating == book_data.review_rating
              classes == detailLog.starClasses
              words == {i \in 1..Len(RatingWords) : RatingWords[i] \in classes}
          IN  /\ ~detailLog.starFound => rating = ""
              /\ (detailLog.starFound /\ words = {}) => rating = "Unknown"
              /\ (detailLog.starFound /\ words # {})
                    => \E i \in words : rating = RatingWords[i] /\ \A j \in words : i <= j
              /\ detailLog.starFound => rating # ""
              /\ ~detailLog.starFound => rating # "Unknown"

\* a star-rating element carrying two rating words gave the first of the
\* vocabulary
C4_Witness ==
    /\ ReturnedRecord
    /\ detailLog.starFound
    /\ {"Two", "Five"} \subseteq detailLog.starClasses
    /\ book_data.review_rating = "Two"

\* the availability text without its leading and trailing whitespace
Trimmed(text) ==
    LET solid == {i \in 1..Len(text) : text[i] \notin Whitespace}
    IN  IF solid = {} THEN <<>>
        ELSE SubSeq(text, CHOOSE i \in solid : \A j \in solid : i <= j,
                          CHOOSE i \in solid : \A j \in solid : j <= i)

\* "(", n digits and " available)" stand in s from position i on
PatternAt(s, i, n) ==
    /\ n >= 1
    /\ i + n + 3 <= Len(s)
    /\ s[i] = "("
    /\ \A k \in 1..n : s[i + k] \in Digits
    /\ s[i + n + 1] = " " /\ s[i + n + 2] = "available" /\ s[i + n + 3] = ")"

PatternPlaces(s) == {pl \in (1..Len(s)) \X (1..Len(s)) : PatternAt(s, pl[1], pl[2])}

\* the number a digit string denotes
RECURSIVE Power10(_)
Power10(n) == IF n = 0 THEN 1 ELSE 10 * Power10(n - 1)

RECURSIVE Decimal(_)
Decimal(ds) ==
    IF ds = <<>> THEN 0
    ELSE DigitValue(Head(ds)) * Power10(Len(ds) - 1) + Decimal(Tail(ds))

\* every element the function looks up is there, with its text
CompletePage ==
    /\ detailLog.fetch = "ok"
    /\ detailLog.title.found /\ detailLog.title.text # ""
    /\ detailLog.tableFound /\ ~detailLog.tableBadRow
    /\ {"UPC", "Price (incl. tax)", "Price (excl. tax)"} \subseteq detailLog.tableHeaders
    /\ detailLog.availability.found /\ PatternPlaces(Trimmed(detailLog.availability.text)) # {}
    /\ detailLog.description.div /\ detailLog.description.p /\ detailLog.description.text # ""
    /\ detailLog.crumbs >= 3 /\ detailLog.crumbThird.a /\ detailLog.crumbThird.text # ""
    /\ detailLog.starFound
    /\ detailLog.image.div /\ detailLog.image.img /\ detailLog.image.hasSrc

\* C9: quantity_available of a returned record is the integer denoted by the
\* digits of the (leftmost) '(<digits> available)' of the availability text
\* when the text holds that pattern, the raw trimmed text when the block is
\* there and the pattern is not, and the empty string when the block is
\* absent; for a complete page it is an integer and every other field is
\* non-empty.
C9_QuantityAvailable ==
    ReturnedRecord
       => LET tag == detailLog.availability
              s == Trimmed(tag.text)
              places == PatternPlaces(s)
              q == book_data.quantity_available
          IN  /\ ~tag.found => q = StrValue(<<>>)
              /\ (tag.found /\ places = {}) => q = StrValue(s)
              /\ (tag.found /\ places # {})
                    => \E pl \in places :
                          /\ \A other \in places : pl[1] <= other[1]
                          /\ q = IntValue(Decimal(SubSeq(s, pl[1] + 1, pl[1] + pl[2])))
              /\ CompletePage
                    => /\ q.type = "int"
                       /\ book_data.product_page_url # <<>>
                       /\ book_data.universal_product_code # ""
                       /\ book_data.book_title # ""
                       /\ book_data.price_including_tax # ""
                       /\ book_data.price_excluding_tax # ""
                       /\ book_data.product_description # ""
                       /\ book_data.category # ""
                       /\ book_data.review_rating # ""
                       /\ book_data.image_url # <<>>

\* a complete page whose availability text holds the pattern twice, the
\* first with leading zeros
C9_Witness ==
    /\ ReturnedRecord
    /\ CompletePage
    /\ Cardinality(PatternPlaces(Trimmed(detailLog.availability.text))) = 2
    /\ book_data.quantity_available = IntValue(7)

\* C10 as stated: product_description of a returned record is the sentinel
\* 'No description found.' exactly when the description anchor is missing
\* or has no following sibling paragraph, and is the text of that paragraph
\* otherwise.
C10_SentinelExactlyWhenMissing ==
    ReturnedRecord
       => LET tag == detailLog.description
              missing == ~tag.div \/ ~tag.p
              description == book_data.product_description
          IN  /\ (description = NoDescription) <=> missing
              /\ ~missing => description = tag.text

\* C10, amended: product_description of a returned record is the sentinel
\* 'No description found.' when the description anchor is missing or has no
\* following sibling paragraph, and otherwise the text of that paragraph,
\* whatever it is; so the field holds the sentinel for a paragraph that is
\* there only when the paragraph's own text is the sentinel string.  A
\* missing description never leaves the empty default.
C10_Description ==
    ReturnedRecord
       => LET tag == detailLog.description
              missing == ~tag.div \/ ~tag.p
              description == book_data.product_description
          IN  /\ missing => description = NoDescription
              /\ ~missing => description = tag.text
              /\ (description = NoDescription /\ ~missing) => tag.text = NoDescription
              /\ missing => description # ""

\* an anchor without a following paragraph gave the sentinel
C10_Witness ==
    /\ ReturnedRecord
    /\ detailLog.description.div /\ ~detailLog.description.p
    /\ book_data.product_description = NoDescription

-----------------------------------------------------------------------------
\* Properties of the export functions

\* the rows the calls of the log wrote to file f, in call order
RECURSIVE RowsWritten(_, _)
RowsWritten(log, f) ==
    IF log = <<>> THEN <<>>
    ELSE (IF Head(log).filename = f
          THEN [i \in 1..Len(Head(log).data) |-> RecordRow(Head(log).data[i])]
          ELSE <<>>) \o RowsWritten(Tail(log), f)

CalledOn(f) == \E c \in 1..Len(exportLog) : exportLog[c].filename = f

ContentBefore(f) == IF f \in DOMAIN files0 THEN files0[f] ELSE <<>>

\* C5: after any sequence of export calls, a file holds the content it had
\* before the first call, then one header row if and only if it was called
\* on and did not exist or was empty before, then the records of every call
\* on it in call order and batch order.
C5_AppendWithOneHeader ==
    /\ DOMAIN files = DOMAIN files0 \cup {exportLog[c].filename : c \in 1..Len(exportLog)}
    /\ \A f \in DOMAIN files :
          files[f] = ContentBefore(f)
                     \o (IF CalledOn(f) /\ ContentBefore(f) = <<>> THEN <<HeaderRow>> ELSE <<>>)
                     \o RowsWritten(exportLog, f)

\* two batches were exported to a file name that did not exist: one header
\* row, then the records of both
C5_Witness ==
    \E f \in DOMAIN files :
        /\ f \notin DOMAIN files0
        /\ Len(exportLog) = 2
        /\ \A c \in 1..2 : exportLog[c].filename = f /\ Len(exportLog[c].data) = 2
        /\ Len(files[f]) = 5
        /\ {i \in 1..5 : files[f][i] = HeaderRow} = {1}

\* C8 as stated: the prefix of the file name is the category name with
\* every whitespace character replaced by an underscore and every character
\* outside [A-Za-z0-9_-] removed.
IsNameWhitespace(c) == c \in {" ", "\t"}

IsAsciiNameChar(c) == c \in AsciiLetters \cup NameDigits \cup {"_", "-"}

StatedPrefix(name) ==
    SelectSeq([i \in 1..Len(name) |-> IF IsNameWhitespace(name[i]) THEN "_" ELSE name[i]],
              IsAsciiNameChar)

C8_AsciiPrefixAllWhitespace ==
    \A c \in 1..Len(exportLog) :
        exportLog[c].category_name # <<>>
           => exportLog[c].filename = StatedPrefix(exportLog[c].category_name) \o BaseFilename

\* C8, amended: the prefix of the file name is the category name with every
\* space character replaced by an underscore and every character removed
\* that is neither a word character (a letter or digit of any script, or the
\* underscore) nor a hyphen; the fixed base name follows.  So the prefix
\* holds only word characters and hyphens, every space of the name appears
\* as an underscore, and any other whitespace is removed.
IsKeptNameChar(c) == c = " " \/ c = "-" \/ IsWordChar(c)

AmendedPrefix(name) ==
    LET kept == SelectSeq(name, IsKeptNameChar)
    IN  [i \in 1..Len(kept) |-> IF kept[i] = " " THEN "_" ELSE kept[i]]

C8_WordPrefixSpaces ==
    \A c \in 1..Len(exportLog) :
        LET name == exportLog[c].category_name
            filename == exportLog[c].filename
            prefix == SubSeq(filename, 1, Len(filename) - Len(BaseFilename))
        IN  name # <<>>
               => /\ filename = AmendedPrefix(name) \o BaseFilename
                  /\ \A i \in 1..Len(prefix) : IsWordChar(prefix[i]) \/ prefix[i] = "-"
                  /\ Cardinality({i \in 1..Len(prefix) : prefix[i] = "_"})
                        = Cardinality({i \in 1..Len(name) : name[i] \in {" ", "_"}})

\* a name with a space, a tab and a letter outside ASCII was exported
C8_Witness ==
    \E c \in 1..Len(exportLog) :
        /\ exportLog[c].category_name = <<" ", "\t", "é">>
        /\ exportLog[c].filename = <<"_", "é">> \o BaseFilename
        /\ exportLog[c].filename \in DOMAIN files

-----------------------------------------------------------------------------
\* Properties of get_all_categories_with_links

\* the root page has the sidebar, the nav-list and a list nested in it
HasNestedList(resp) == resp.ok /\ resp.page.side /\ resp.page.nav /\ resp.page.nested # <<>>

\* C7: the function returns, in document order, one {name, url} pair per
\* link of the first list nested in the sidebar navigation list (every link
\* carrying its href), nothing of the outer list or of a later list; and
\* the empty list when the root fetch fails or the sidebar, the navigation
\* list or the nested list is missing.  No exception leaves the function.
C7_CategoriesOfFirstNestedList ==
    /\ categories_ret # "raised"
    /\ categories_ret = "list"
          => /\ ~HasNestedList(rootLog) => categories = <<>>
             /\ (HasNestedList(rootLog)
                 /\ \A i \in 1..Len(rootLog.page.nested[1]) : rootLog.page.nested[1][i].hasHref)
                   => LET links == rootLog.page.nested[1]
                      IN  categories = [i \in 1..Len(links) |->
                                           [name |-> Trimmed(links[i].text),
                                            url |-> urljoin(MainUrl, links[i].href)]]

\* two categories were returned from a page with two nested lists
C7_Witness ==
    /\ categories_ret = "list"
    /\ HasNestedList(rootLog)
    /\ Len(rootLog.page.nested) = 2
    /\ Len(categories) = 2
    /\ categories[1].name = <<"A", "r", "t">>
    /\ categories[1].url # categories[2].url

-----------------------------------------------------------------------------
\* Properties of the __main__ block of Phase3.py

\* the records among the results of a category, in order
RECURSIVE RecordsOf(_)
RecordsOf(results) ==
    IF results = <<>> THEN <<>>
    ELSE (IF Head(results).ret = "dict" THEN <<Head(results).book_details>> ELSE <<>>)
         \o RecordsOf(Tail(results))

\* the export calls that the finished categories of the log call for
RECURSIVE ExpectedExports(_)
ExpectedExports(log) ==
    IF log = <<>> THEN <<>>
    ELSE (IF Head(log).done /\ RecordsOf(Head(log).results) # <<>>
          THEN <<[category_name |-> Head(log).name, data |-> RecordsOf(Head(log).results)]>>
          ELSE <<>>) \o ExpectedExports(Tail(log))

RECURSIVE RecordCount(_)
RecordCount(log) ==
    IF log = <<>> THEN 0 ELSE Len(RecordsOf(Head(log).results)) + RecordCount(Tail(log))

\* C6: in the crawl no exception of a fetch or a parse reaches the
\* __main__ block; the k-th category entered is the k-th category found;
\* every link of a finished category was handed to the extraction, in link
\* order, and each returned record is that of its link; the batches handed
\* to export_books_to_csv are, category by category, exactly the records
\* returned for that category's links in link order (no call for a category
\* without a record); and at the end every category found was processed.
C6_FailedExtractionSkipped ==
    /\ pcM # "raised"
    /\ Len(mainLog) <= Len(categories_with_links)
    /\ \A k \in 1..Len(mainLog) :
          LET e == mainLog[k]
          IN  /\ e.name = categories_with_links[k].name
              /\ e.url = categories_with_links[k].url
              /\ Len(e.results) <= Len(e.links)
              /\ e.done => Len(e.results) = Len(e.links)
              /\ \A n \in 1..Len(e.results) :
                    /\ e.results[n].url = e.links[n]
                    /\ e.results[n].ret \in {"dict", "None"}
                    /\ e.results[n].ret = "dict"
                          => e.results[n].book_details.product_page_url = e.links[n]
    /\ [c \in 1..Len(exportLog) |->
           [category_name |-> exportLog[c].category_name, data |-> exportLog[c].data]]
          = ExpectedExports(mainLog)
    /\ total_books_scraped = RecordCount(mainLog)
    /\ pcM = "end" => /\ Len(mainLog) = Len(categories_with_links)
                      /\ \A k \in 1..Len(mainLog) : mainLog[k].done

\* the crawl ended; the second of the first category's three extractions
\* failed and two records were exported for it, and the second category
\* was exported after a category of which only some extractions succeeded
C6_Witness ==
    /\ pcM = "end"
    /\ Len(mainLog) = 2
    /\ Len(mainLog[1].results) = 3
    /\ [n \in 1..3 |-> mainLog[1].results[n].ret] = <<"dict", "None", "dict">>
    /\ Len(exportLog) = 2
    /\ Len(exportLog[1].data) = 2
    /\ exportLog[1].data[2].product_page_url = mainLog[1].links[3]
    /\ \E n \in 1..Len(mainLog[2].results) : mainLog[2].results[n].ret = "None"

\* the product_page_url values of a sequence of records are pairwise different
DistinctUrls(records) ==
    \A m, n \in 1..Len(records) :
        m # n => records[m].product_page_url # records[n].product_page_url

\* the records among the rows of a file
RecordsOfFile(rows) ==
    LET kept == SelectSeq(rows, LAMBDA row : row.kind = "record")
    IN  [n \in 1..Len(kept) |-> kept[n].data]

\* C11: product_page_url is a unique key within a crawl: no two records of
\* the batch collected for a category, no two records of a batch handed to
\* export_books_to_csv and no two rows of a file written by the crawl carry
\* the same product_page_url.
C11_UniqueProductPageUrl ==
    /\ DistinctUrls(books_in_current_category)
    /\ \A c \in 1..Len(exportLog) : DistinctUrls(exportLog[c].data)
    /\ \A f \in DOMAIN files : DistinctUrls(RecordsOfFile(files[f]))

-----------------------------------------------------------------------------
\* Properties of the image URL

CatalogueMarker == <<"/", "catalogue", "/">>

TraversalPrefix == <<"..", "/", "..", "/">>

\* the URL string holds the '/catalogue/' marker
HasCatalogueMarker(s) == \E i \in 1..Len(s) : OccursAt(s, CatalogueMarker, i)

\* the part of the URL string before its first '/catalogue/' marker
BeforeCatalogueMarker(s) ==
    LET first == CHOOSE i \in 1..Len(s) :
                    /\ OccursAt(s, CatalogueMarker, i)
                    /\ \A j \in 1..(i - 1) : ~OccursAt(s, CatalogueMarker, j)
    IN  SubSeq(s, 1, first - 1)

\* the path without its leading '../../', and without all of its leading
\* '../../' when there are several
WithoutPrefixOnce(path) ==
    IF OccursAt(path, TraversalPrefix, 1) THEN SubSeq(path, 5, Len(path)) ELSE path

RECURSIVE WithoutLeadingPrefixes(_)
WithoutLeadingPrefixes(path) ==
    IF OccursAt(path, TraversalPrefix, 1)
    THEN WithoutLeadingPrefixes(SubSeq(path, 5, Len(path)))
    ELSE path

\* C12: for a URL holding the '/catalogue/' marker, image_url of a returned
\* record is the part of the URL before the marker, '/', and the source
\* path of the image without its leading '../../' (one, or all the leading
\* ones), any '../../' further inside the path being kept; it stays empty
\* when the container, the <img> or its src attribute is absent.
C12_ImageUrlLeadingPrefixOnly ==
    (ReturnedRecord /\ HasCatalogueMarker(UrlString(book_url)))
       => LET tag == detailLog.image
              base == BeforeCatalogueMarker(UrlString(book_url)) \o <<"/">>
          IN  IF tag.div /\ tag.img /\ tag.hasSrc
              THEN book_data.image_url \in {base \o WithoutPrefixOnce(tag.src),
                                            base \o WithoutLeadingPrefixes(tag.src)}
              ELSE book_data.image_url = <<>>

-----------------------------------------------------------------------------
\* Termination of get_all_book_links_in_category

\* the pass over this served page leaves the loop: the fetch failed, an
\* entry or the 'next' indicator is malformed, or there is no 'next'
PassLeaves(resp) ==
    \/ ~resp.ok
    \/ MalformedArticleAt(resp.page) > 0
    \/ MalformedNext(resp.page)
    \/ ~resp.page.next.li

\* the chain of 'next' links from url comes, without passing a page twice,
\* to a page that leaves the loop
RECURSIVE ChainEnds(_, _)
ChainEnds(url, visited) ==
    IF url \in visited \/ url \notin DOMAIN site THEN FALSE
    ELSE IF PassLeaves(site[url]) THEN TRUE
    ELSE ChainEnds(urljoin(url, site[url].page.next.href), visited \cup {url})

\* C13: on a site whose chain of 'next' links from the category root ends
\* (it is finite and acyclic, or a fetch on it fails, or a page on it is
\* malformed) the function eventually returns; it returns only after a pass
\* over a page without 'next' indicator, a failed fetch or a parsing error;
\* and on a chain that cycles with every fetch succeeding it never returns.
C13_Termination ==
    /\ (pcL = "loop" /\ ChainEnds(SiteRoot, {})) ~> (pcL = "done")
    /\ [](pcL = "done"
            => LET last == fetchLog[Len(fetchLog)]
               IN  ~last.ok \/ last.badArticle \/ last.badNext \/ ~last.next.li)
    /\ [](~ChainEnds(SiteRoot, {}) => pcL # "done")

\* the function returned after three pages of an acyclic chain, all fetched
C13_Witness ==
    /\ pcL = "done"
    /\ ChainEnds(SiteRoot, {})
    /\ Len(fetchLog) = 3
    /\ \A j \in 1..3 : fetchLog[j].ok /\ ~fetchLog[j].badArticle
    /\ ~fetchLog[3].next.li

\* the chain cycles and the loop is still running after it came round
C13_WitnessCycle ==
    /\ pcL = "loop"
    /\ ~ChainEnds(SiteRoot, {})
    /\ \E j \in 2..Len(fetchLog) : fetchLog[j].url = fetchLog[1].url

-----------------------------------------------------------------------------
\* Order of the crawl

\* within a category: listing fetches, then detail fetches, then the export
PhaseRank(kind) ==
    CASE kind = "root" -> 0 [] kind = "listing" -> 1 [] kind = "detail" -> 2 [] kind = "export" -> 3

\* event a may come before event b
MayPrecede(a, b) ==
    \/ a.category < b.category
    \/ a.category = b.category /\ PhaseRank(a.kind) <= PhaseRank(b.kind)

\* C14: the crawl is sequential and ordered per category: the fetch of the
\* root page comes first and only once; then, category by category, the
\* listing fetches of the category, then its detail fetches, then its one
\* export, all before any fetch for the next category; and no function that
\* fetches is active while another one is.
C14_SequentialPerCategory ==
    /\ \A n \in 1..Len(crawlTrace) : (crawlTrace[n].kind = "root") <=> (n = 1)
    /\ \A m, n \in 1..Len(crawlTrace) : m < n => MayPrecede(crawlTrace[m], crawlTrace[n])
    /\ \A m, n \in 1..Len(crawlTrace) :
          (m < n /\ crawlTrace[m].kind = "export" /\ crawlTrace[n].kind = "export")
             => crawlTrace[m].category < crawlTrace[n].category
    /\ pcL = "loop" => pcD = "idle"
    /\ pcD # "idle" => pcL = "idle"
    /\ (pcL # "idle" \/ pcD # "idle") => categories_ret = "list"

\* the crawl ended after two listing fetches, detail fetches and an export
\* for the first category, and fetches and an export for the second
C14_Witness ==
    /\ pcM = "end"
    /\ Cardinality({n \in 1..Len(crawlTrace) : crawlTrace[n] = CrawlEvent("listing", 1)}) = 2
    /\ Cardinality({n \in 1..Len(crawlTrace) : crawlTrace[n] = CrawlEvent("detail", 1)}) >= 2
    /\ \E n \in 1..Len(crawlTrace) : crawlTrace[n] = CrawlEvent("export", 1)
    /\ \E n \in 1..Len(crawlTrace) : crawlTrace[n] = CrawlEvent("listing", 2)
    /\ \E n \in 1..Len(crawlTrace) : crawlTrace[n] = CrawlEvent("detail", 2)
    /\ crawlTrace[Len(crawlTrace)] = CrawlEvent("export", 2)

-----------------------------------------------------------------------------
\* Resolution of the links of a listing page

\* the product links the pass over a logged page appended: those of the
\* entries before the first one without heading, each resolved against the
\* URL the page was fetched from
LinksAppendedOn(entry) ==
    LET hrefs == IF entry.badArticle THEN entry.hrefsBeforeBad ELSE entry.hrefs
    IN  [i \in 1..Len(hrefs) |-> urljoin(entry.url, hrefs[i])]

RECURSIVE LinksAppended(_)
LinksAppended(log) ==
    IF log = <<>> THEN <<>> ELSE LinksAppendedOn(Head(log)) \o LinksAppended(Tail(log))

\* C15: the first listing page fetched is the category root; page j+1 is
\* fetched from the 'next' target of page j resolved against the URL page j
\* was fetched from, and that is the current URL after the pass over page
\* j; every product link is resolved against the URL of the page it was
\* found on.
C15_ResolvedAgainstCurrentPage ==
    /\ fetchLog # <<>> => fetchLog[1].url = category_base_url
    /\ \A j \in 1..(Len(fetchLog) - 1) :
          fetchLog[j + 1].url = urljoin(fetchLog[j].url, fetchLog[j].next.href)
    /\ (pcL = "loop" /\ fetchLog # <<>>)
          => current_page_url = urljoin(fetchLog[Len(fetchLog)].url,
                                        fetchLog[Len(fetchLog)].next.href)
    /\ all_book_links = LinksAppended(fetchLog)

\* a link of the second page was returned, and resolving it against the
\* category root would have given another URL
C15_Witness ==
    /\ pcL = "done"
    /\ Len(fetchLog) = 3
    /\ fetchLog[2].url # category_base_url
    /\ fetchLog[3].url # urljoin(category_base_url, fetchLog[2].next.href)
    /\ Len(fetchLog[1].hrefs) = 1 /\ Len(fetchLog[2].hrefs) = 1
    /\ all_book_links[2] = urljoin(fetchLog[2].url, fetchLog[2].hrefs[1])
    /\ all_book_links[2] # urljoin(category_base_url, fetchLog[2].hrefs[1])

-----------------------------------------------------------------------------
\* Parsing errors of get_all_book_links_in_category

\* s is an initial part of t
IsPrefix(s, t) == Len(s) <= Len(t) /\ SubSeq(t, 1, Len(s)) = s

\* the hrefs resolved against the URL of the page
Resolved(url, hrefs) == [i \in 1..Len(hrefs) |-> urljoin(url, hrefs[i])]

\* C16: when the pass over a fetched listing page j meets a product entry
\* without heading, the function returns the links of pages 1..j-1 and
\* then the links of page j that stand before that entry; when it meets a
\* 'next' indicator without link (every entry holding its heading), it
\* returns the links of pages 1..j; in both cases page j is the last page
\* fetched and the return is normal.  While the loop runs, the list only
\* grows at its end.
C16_ParsingErrorKeepsLinks ==
    /\ [](\A j \in 1..Len(fetchLog) :
             LET entry == fetchLog[j]
                 before == LinksOfPages(fetchLog, 1, j - 1)
             IN  /\ (entry.ok /\ entry.badArticle)
                       => /\ j = Len(fetchLog)
                          /\ pcL = "done"
                          /\ all_book_links = before \o Resolved(entry.url, entry.hrefsBeforeBad)
                 /\ (entry.ok /\ ~entry.badArticle /\ entry.badNext)
                       => /\ j = Len(fetchLog)
                          /\ pcL = "done"
                          /\ all_book_links = before \o Resolved(entry.url, entry.hrefs))
    /\ [][pcL = "loop" => IsPrefix(all_book_links, all_book_links')]_vars

\* the second page held a link and then an entry without heading: the two
\* links of the first page and that link were returned
C16_Witness ==
    /\ pcL = "done"
    /\ Len(fetchLog) = 2
    /\ Len(fetchLog[1].hrefs) = 2
    /\ fetchLog[2].ok /\ fetchLog[2].badArticle
    /\ Len(fetchLog[2].hrefsBeforeBad) = 1
    /\ Len(all_book_links) = 3
    /\ all_book_links[3] = urljoin(fetchLog[2].url, fetchLog[2].hrefsBeforeBad[1])

\* the second page held two links and a 'next' indicator without link
C16_WitnessNext ==
    /\ pcL = "done"
    /\ Len(fetchLog) = 2
    /\ fetchLog[2].ok /\ ~fetchLog[2].badArticle /\ fetchLog[2].badNext
    /\ Len(fetchLog[2].hrefs) = 2
    /\ Len(all_book_links) = 2 + Len(fetchLog[1].hrefs)

-----------------------------------------------------------------------------
\* Category enumeration with a link that carries no href

HasLinkWithoutHref(resp) ==
    /\ HasNestedList(resp)
    /\ \E i \in 1..Len(resp.page.nested[1]) : ~resp.page.nested[1][i].hasHref

\* C17: when a link of the nested category list carries no href,
\* get_all_categories_with_links returns the empty list, whatever pairs it
\* had accumulated before that link, and the crawl ends without entering a
\* category: no listing or detail page is fetched and nothing is exported.
C17_CategoriesAllOrNothing ==
    /\ categories_ret # "raised"
    /\ (categories_ret = "list" /\ HasLinkWithoutHref(rootLog))
          => /\ categories = <<>>
             /\ categories_with_links = <<>>
             /\ pcM = "end"
             /\ mainLog = <<>>
             /\ exportLog = <<>>
             /\ crawlTrace = <<CrawlEvent("root", 0)>>

\* the second link of the list carried no href, the first one did
C17_Witness ==
    /\ categories_ret = "list"
    /\ HasNestedList(rootLog)
    /\ Len(rootLog.page.nested[1]) = 2
    /\ rootLog.page.nested[1][1].hasHref
    /\ ~rootLog.page.nested[1][2].hasHref
    /\ categories = <<>>
    /\ pcM = "end"

-----------------------------------------------------------------------------
\* One export file per category

\* C18: two categories with different names never have their records
\* written to the same file: any two export calls of the crawl made for
\* different category names write to different files.
C18_OneFilePerCategory ==
    \A c, d \in 1..Len(exportLog) :
        exportLog[c].category_name # exportLog[d].category_name
           => exportLog[c].filename # exportLog[d].filename

-----------------------------------------------------------------------------
\* Specifications: each function run on its own, on every input of the model

Init == InitLinks /\ InitDetail /\ InitExport /\ InitCategories /\ InitMain

SpecLinks == Init /\ [][NextLinks]_vars

SpecDetail == Init /\ [][NextDetail]_vars

SpecDetailTags == Init /\ [][NextDetailTags]_vars

InitOnFileSystems ==
    InitLinks /\ InitDetail /\ InitExportOn(FileSystems) /\ InitCategories /\ InitMain

SpecExport == InitOnFileSystems /\ [][NextExport]_vars

SpecExportNames == Init /\ [][NextExportNames]_vars

SpecCategories == Init /\ [][NextCategories]_vars

SpecMain == Init /\ [][NextMain]_vars

\* the loop of get_all_book_links_in_category keeps running: every fetch is
\* a blocking call that returns
InitOnSites ==
    InitLinksOn(Sites) /\ InitDetail /\ InitExport /\ InitCategories /\ InitMain

SpecSite == InitOnSites /\ [][NextSite]_vars /\ WF_vars(NextSite)

====
